---- MODULE Spec2Model ----
(***************************************************************************)
(* Vivaah.AI: the chat router (POST), the vendor retriever in its two      *)
(* source variants, the session store adapter in its two source variants   *)
(* and the Message Wall's render list.                                      *)
(*                                                                          *)
(* Text is modelled as a sequence of one-character strings, so that         *)
(* toLowerCase and includes are computed, not assumed.  A streamed delta is *)
(* a sequence of string pieces in the order the template concatenates them. *)
(***************************************************************************)
EXTENDS Integers, Sequences, FiniteSets, TLC

VARIABLES
    \* ---- chat router (POST) ----
    messages,          \* the request body's message history
    pc,                \* position of the POST handler
    latestUserText,    \* getLatestUserText(messages) ?? ''
    moderationResult,  \* what isContentFlagged resolved to
    vendorMode,        \* isVendorQuery(latestUserText)
    events,            \* the events written to the stream writer, in order
    retrieverImpl,     \* which source variant of vectorDatabaseSearch is built
    result,            \* what vectorDatabaseSearch.execute settled to
    moderationCalls,   \* number of isContentFlagged calls
    retrieverCalls,    \* number of vectorDatabaseSearch.execute calls
    llmCalls,          \* number of streamText calls
    stepCount,         \* general path: steps the backend has run
    toolOutstanding,   \* general path: tool calls issued and not yet answered
    \* ---- session store adapter ----
    sessionImpl,       \* which source variant of lib/session is built
    table,             \* convo_sessions: session_key -> row, or NoRow
    calls,             \* caller -> the call it has in flight
    clock,             \* the wall clock new Date() reads
    writeLog,          \* the updates the store has applied, in order
    \* ---- Message Wall ----
    wallMessages,      \* useChat().messages
    rendered           \* the render list of the last render

routerVars == <<messages, pc, latestUserText, moderationResult, vendorMode, events,
                retrieverImpl, result, moderationCalls, retrieverCalls, llmCalls,
                stepCount, toolOutstanding>>
sessionVars == <<sessionImpl, table, calls, clock, writeLog>>
wallVars == <<wallMessages, rendered>>
vars == <<routerVars, sessionVars, wallVars>>

(***************************************************************************)
(* Bounds of the model.                                                    *)
(***************************************************************************)
MaxTextLen == 2     \* longest generated utterance fragment
MaxMatches == 6     \* most matches the index hands back in one response

(***************************************************************************)
(* JavaScript values.                                                      *)
(***************************************************************************)
U == "undefined"                      \* undefined / null / an absent field
Truthy(x) == x # U /\ x # ""          \* truthiness of a string-or-undefined
Or(x, d) == IF Truthy(x) THEN x ELSE d      \* x || d
Coalesce(x, d) == IF x # U THEN x ELSE d    \* x ?? d
Min(a, b) == IF a <= b THEN a ELSE b

Upper == <<"A","B","C","D","E","F","G","H","I","J","K","L","M","N","O","P","Q","R","S","T","U","V","W","X","Y","Z">>
LowerLetters == <<"a","b","c","d","e","f","g","h","i","j","k","l","m","n","o","p","q","r","s","t","u","v","w","x","y","z">>

LowerChar(c) ==
    IF \E i \in 1..Len(Upper) : Upper[i] = c
    THEN LowerLetters[CHOOSE i \in 1..Len(Upper) : Upper[i] = c]
    ELSE c

\* String.prototype.toLowerCase
ToLowerCase(s) == [i \in 1..Len(s) |-> LowerChar(s[i])]

\* does k occur in t at offset i (0-based)?
RECURSIVE MatchAt(_, _, _, _)
MatchAt(t, k, i, j) ==
    IF j > Len(k) THEN TRUE
    ELSE IF i + j > Len(t) THEN FALSE
    ELSE IF t[i + j] # k[j] THEN FALSE
    ELSE MatchAt(t, k, i, j + 1)

\* String.prototype.includes: scan the start offsets left to right
RECURSIVE IncludesFrom(_, _, _)
IncludesFrom(t, k, i) ==
    IF i + Len(k) > Len(t) THEN FALSE
    ELSE IF MatchAt(t, k, i, 1) THEN TRUE
    ELSE IncludesFrom(t, k, i + 1)

Includes(t, k) == IncludesFrom(t, k, 0)

\* Array.prototype.join('') over a sequence of texts
RECURSIVE JoinTexts(_)
JoinTexts(ts) == IF ts = <<>> THEN <<>> ELSE Head(ts) \o JoinTexts(Tail(ts))

(***************************************************************************)
(* isVendorQuery and getLatestUserText.                                    *)
(***************************************************************************)
vendorKeywords == {
    <<"v","e","n","d","o","r">>,
    <<"v","e","n","d","o","r","s">>,
    <<"c","a","t","e","r","e","r">>,
    <<"c","a","t","e","r","e","r","s">>,
    <<"v","e","n","u","e">>,
    <<"v","e","n","u","e","s">>,
    <<"w","e","d","d","i","n","g">>,
    <<"p","h","o","t","o","g","r","a","p","h","e","r">>,
    <<"p","h","o","t","o","g","r","a","p","h","e","r","s">>,
    <<"m","a","k","e","u","p">>,
    <<"d","e","c","o","r","a","t","o","r">>,
    <<"d","e","c","o","r">>,
    <<"d","j">>,
    <<"b","a","n","q","u","e","t">> }

cityKeywords == {
    <<"m","u","m","b","a","i">>,
    <<"b","o","m","b","a","y">> }

\* isVendorQuery with the toLowerCase() call left out
isVendorQueryCaseSensitive(text) ==
    IF text = <<>> THEN FALSE
    ELSE (\E k \in vendorKeywords : Includes(text, k))
         \/ (\E c \in cityKeywords : Includes(text, c))

\* text is the string, or <<>> for null: !text is true of both
isVendorQuery(text) ==
    IF text = <<>> THEN FALSE
    ELSE LET t == ToLowerCase(text)
         IN  (\E k \in vendorKeywords : Includes(t, k))
             \/ (\E c \in cityKeywords : Includes(t, c))

IsUser(msg) == msg.role = "user"
IsTextPart(part) == part.type = "text"

\* the text of the last user message's text parts; isNull when there is no
\* user message or the joined text is empty
getLatestUserText(msgs) ==
    LET users == SelectSeq(msgs, IsUser)
    IN  IF users = <<>> THEN [isNull |-> TRUE, text |-> <<>>]
        ELSE LET latestUserMessage == users[Len(users)]
                 texts == SelectSeq(latestUserMessage.parts, IsTextPart)
                 textParts == JoinTexts([i \in 1..Len(texts) |-> texts[i].text])
             IN  IF textParts = <<>> THEN [isNull |-> TRUE, text |-> <<>>]
                 ELSE [isNull |-> FALSE, text |-> textParts]

(***************************************************************************)
(* The request bodies the router is exercised on.                          *)
(***************************************************************************)
Alpha == {"d", "J"}

RECURSIVE StringsUpTo(_)
StringsUpTo(n) ==
    IF n = 0 THEN {<<>>}
    ELSE LET shorter == StringsUpTo(n - 1)
         IN  shorter \cup {Append(s, c) : s \in shorter, c \in Alpha}

SampleTexts == {
    <<"h","i">>,
    <<"D","J">>,
    <<"a","d","J","u","s","t">>,
    <<"M","u","m","b","a","i">>,
    <<"B","O","M","B","A","Y">>,
    <<"D","e","c","o","r">>,
    <<"w","e","d">>,
    <<"j","d">>,
    <<"V","e","n","u","e","s">> }

Fragments == SampleTexts \cup StringsUpTo(MaxTextLen)
ShortTexts == {<<>>, <<"d">>, <<"D">>, <<"j">>, <<"x">>}

TextPart(t) == [type |-> "text", text |-> t]
UserMsg(t) == [role |-> "user", parts |-> <<TextPart(t)>>]
\* two text parts around a part of another type
UserMsg2(a, b) ==
    [role |-> "user",
     parts |-> <<TextPart(a), [type |-> "reasoning", text |-> <<"d","j">>], TextPart(b)>>]
AssistantMsg ==
    [role |-> "assistant", parts |-> <<TextPart(<<"d","j">>)>>]

Histories ==
    {<<>>, <<AssistantMsg>>}
    \cup {<<UserMsg(f)>> : f \in Fragments}
    \cup {<<UserMsg(f), AssistantMsg>> : f \in Fragments}
    \cup {<<UserMsg(<<"D","J">>), UserMsg(f)>> : f \in Fragments}
    \cup {<<UserMsg2(a, b)>> : a \in ShortTexts, b \in ShortTexts}

(***************************************************************************)
(* The vendor index and the two source variants of vectorDatabaseSearch.   *)
(* A match's metadata is a record of the fields the code reads; a field    *)
(* the index did not send, and a match without metadata, read as U.        *)
(***************************************************************************)
NoMetadata ==
    [name |-> U, title |-> U, vendor_name |-> U, location |-> U, city |-> U,
     category |-> U, vendor_type |-> U, price_range |-> U, price |-> U,
     description |-> U, desc |-> U]

MatchKinds == {
    [id |-> "v-full", score |-> "0.91",
     metadata |-> [NoMetadata EXCEPT !.name = "Asha Caterers", !.location = "Andheri",
                                     !.category = "Caterer", !.price_range = "INR 900 per plate"]],
    [id |-> "v-bare", score |-> U, metadata |-> NoMetadata],
    [id |-> "v-alt", score |-> "0.55",
     metadata |-> [NoMetadata EXCEPT !.title = "Sea View Banquets", !.city = "Colaba",
                                     !.vendor_type = "Venue", !.price = "INR 2L"]] }

RECURSIVE SeqsUpTo(_, _)
SeqsUpTo(S, n) ==
    IF n = 0 THEN {<<>>}
    ELSE LET shorter == SeqsUpTo(S, n - 1)
         IN  shorter \cup {Append(s, x) : s \in shorter, x \in S}

\* The index is an external service: the number of matches it answers with is
\* not taken to be held to topK (the adaptive variant's fetch fallback passes
\* no vector at all), so lists longer than the router's cap occur.
MatchLists == SeqsUpTo(MatchKinds, MaxMatches)

\* What the external services do during one execute: client initialisation,
\* the embedding call, the index query and the matches it answers with.
BackendOutcomes ==
    {[init |-> "ok", embed |-> "ok", query |-> "ok", matches |-> m] : m \in MatchLists}
    \cup {[init |-> i, embed |-> "ok", query |-> "ok", matches |-> <<>>] : i \in {"throws", "noIndex"}}
    \cup {[init |-> "ok", embed |-> e, query |-> "ok", matches |-> <<>>] : e \in {"throws", "null"}}
    \cup {[init |-> "ok", embed |-> "ok", query |-> "throws", matches |-> <<>>]}

Settled(env, threw, vendors) == [env |-> env, threw |-> threw, vendors |-> vendors]

\* src/app/api/chat/tools/search-vector-database.ts: the module-level client
\* needs no initialisation step and the embedding is read without a null check
ToolVendor(m) ==
    [id |-> m.id, score |-> m.score, name |-> m.metadata.name,
     location |-> m.metadata.location, category |-> m.metadata.category,
     price_range |-> m.metadata.price_range]

ToolExecute(query, topK, env) ==
    IF env.embed = "throws" \/ env.embed = "null" \/ env.query = "throws"
    THEN Settled(env, FALSE, <<>>)                     \* catch: return { vendors: [] }
    ELSE Settled(env, FALSE, [i \in 1..Len(env.matches) |-> ToolVendor(env.matches[i])])

\* src/unnamed/part_002
normalizeMatch(m) ==
    [id |-> m.id,
     score |-> m.score,
     name |-> Coalesce(m.metadata.name, Coalesce(m.metadata.title, Coalesce(m.metadata.vendor_name, ""))),
     location |-> Coalesce(m.metadata.location, Coalesce(m.metadata.city, "")),
     category |-> Coalesce(m.metadata.category, Coalesce(m.metadata.vendor_type, "")),
     price_range |-> Coalesce(m.metadata.price_range, Coalesce(m.metadata.price, ""))]

AdaptiveExecute(query, topK, env) ==
    IF query = <<>> THEN Settled(env, FALSE, <<>>)
    ELSE IF env.init = "throws" \/ env.init = "noIndex" THEN Settled(env, TRUE, <<>>)
    ELSE IF env.embed = "throws" THEN Settled(env, TRUE, <<>>)
    ELSE IF env.embed = "null" THEN Settled(env, FALSE, <<>>)
    ELSE IF env.query = "throws" THEN Settled(env, TRUE, <<>>)
    ELSE Settled(env, FALSE, [i \in 1..Len(env.matches) |-> normalizeMatch(env.matches[i])])

vectorDatabaseSearchExecute(impl, query, topK, env) ==
    IF impl = "tool" THEN ToolExecute(query, topK, env)
    ELSE AdaptiveExecute(query, topK, env)

(***************************************************************************)
(* The chat router: POST.                                                  *)
(***************************************************************************)
TopK == 5          \* topK of the vendor path's execute call
SliceEnd == 5      \* vendors.slice(0, 5)
StepLimit == 10    \* stopWhen: stepCountIs(10)

Digits == <<"1", "2", "3", "4", "5", "6", "7", "8", "9">>

\* The fixed texts, in ASCII: the source's typographic apostrophe and en dash
\* are written ' and - here.
DenialFallback == "Your message violates our guidelines. I can't answer that."
NoVendorsMessage == "I couldn't find any vendors in my database for that request. Try specifying the type of vendor (e.g., photographers, caterers) or a different area in Mumbai."
FailureMessage == "Something went wrong while fetching vendors. Please try again in a moment."
Header == "Here are some vendors in Mumbai based on your request:\n\n"

Ev(type) == [type |-> type, id |-> U, delta |-> <<>>]
TextEv(type, id) == [type |-> type, id |-> id, delta |-> <<>>]
DeltaEv(id, delta) == [type |-> "text-delta", id |-> id, delta |-> delta]

\* the moderation branch writing denialMessage without the || fallback
DenialEventsNoFallback(mod) ==
    << Ev("start"),
       TextEv("text-start", "moderation-denial-text"),
       DeltaEv("moderation-denial-text", <<mod.denialMessage>>),
       TextEv("text-end", "moderation-denial-text"),
       Ev("finish") >>

\* the moderation branch's execute({ writer })
DenialEvents(mod) ==
    LET textId == "moderation-denial-text"
    IN  << Ev("start"),
           TextEv("text-start", textId),
           DeltaEv(textId, <<Or(mod.denialMessage, DenialFallback)>>),
           TextEv("text-end", textId),
           Ev("finish") >>

\* the vendor branch writing a progress delta before it awaits execute
VendorOpenEventsWithDelta ==
    << Ev("start"),
       TextEv("text-start", "vendor-response"),
       DeltaEv("vendor-response", <<"Searching vendors...">>) >>

\* vendor branch, up to the await of execute
VendorOpenEvents ==
    << Ev("start"), TextEv("text-start", "vendor-response") >>

\* one formatted vendor line: `${idx + 1}. ${name} - ${category}, ${location}${price}`
VendorLine(v, idx) ==
    LET name == Or(v.name, "Unnamed vendor")
        category == Or(v.category, "Vendor")
        location == Or(v.location, "Mumbai")
        price == IF Truthy(v.price_range) THEN <<", approx ", v.price_range>> ELSE <<>>
    IN  <<Digits[idx + 1], ". ", name, " - ", category, ", ", location>> \o price

\* Array.prototype.join('\n')
RECURSIVE JoinLines(_)
JoinLines(lines) ==
    IF lines = <<>> THEN <<>>
    ELSE IF Len(lines) = 1 THEN Head(lines)
    ELSE Head(lines) \o <<"\n">> \o JoinLines(Tail(lines))

\* the vendor list without the slice(0, 5)
SliceVendorsAll(vendors) == vendors

SliceVendors(vendors) == SubSeq(vendors, 1, Min(SliceEnd, Len(vendors)))

\* the delta of the try block, given the vendors execute resolved to
VendorsDelta(vendors) ==
    IF Len(vendors) = 0 THEN <<NoVendorsMessage>>
    ELSE LET shown == SliceVendors(vendors)
             lines == [i \in 1..Len(shown) |-> VendorLine(shown[i], i - 1)]
         IN  <<Header>> \o JoinLines(lines)

\* the catch block's delta
CatchDelta == <<FailureMessage>>

\* the vendor branch with the text-end write inside the try block's else
\* branch, so that the catch path and the empty path leave the text open
VendorCloseEventsEndInElse(res) ==
    IF ~res.threw /\ Len(res.vendors) > 0
    THEN << DeltaEv("vendor-response", VendorsDelta(res.vendors)),
            TextEv("text-end", "vendor-response"),
            Ev("finish") >>
    ELSE << DeltaEv("vendor-response", IF res.threw THEN CatchDelta ELSE <<NoVendorsMessage>>),
            Ev("finish") >>

\* vendor branch, after the await: the delta, then text-end and finish
VendorCloseEvents(res) ==
    LET textId == "vendor-response"
    IN  << DeltaEv(textId, IF res.threw THEN CatchDelta ELSE VendorsDelta(res.vendors)),
           TextEv("text-end", textId),
           Ev("finish") >>

NoResult == [env |-> [init |-> "none", embed |-> "none", query |-> "none", matches |-> <<>>],
             threw |-> FALSE, vendors |-> <<>>]
NoModeration == [flagged |-> FALSE, denialMessage |-> U, called |-> FALSE]

\* what the gate resolves to: a denial message comes with a flagged result
\* only, and may be absent or empty even then
ModerationResults ==
    {[flagged |-> TRUE, denialMessage |-> d, called |-> TRUE] :
        d \in {U, "", "This request is not allowed."}}
    \cup {[flagged |-> FALSE, denialMessage |-> U, called |-> TRUE]}

RouterInit ==
    /\ messages \in Histories
    /\ retrieverImpl \in {"tool", "adaptive"}
    /\ pc = "request"
    /\ latestUserText = <<>>
    /\ moderationResult = NoModeration
    /\ vendorMode = FALSE
    /\ events = <<>>
    /\ result = NoResult
    /\ moderationCalls = 0
    /\ retrieverCalls = 0
    /\ llmCalls = 0
    /\ stepCount = 0
    /\ toolOutstanding = 0

\* POST from `const vendorMode = isVendorQuery(latestUserText)` to the next await
Dispatch(text) ==
    /\ vendorMode' = isVendorQuery(text)
    /\ IF isVendorQuery(text)
       THEN /\ events' = VendorOpenEvents
            /\ retrieverCalls' = retrieverCalls + 1
            /\ pc' = "retrieving"
            /\ UNCHANGED llmCalls
       ELSE /\ llmCalls' = llmCalls + 1
            /\ pc' = "general"
            /\ UNCHANGED <<events, retrieverCalls>>

\* POST is entered: the body is read and the latest user text extracted; a
\* non-empty text goes to the moderation gate, an empty one straight on
Receive ==
    /\ pc = "request"
    /\ UNCHANGED <<sessionVars, wallVars>>
    /\ LET text == getLatestUserText(messages).text
       IN  /\ latestUserText' = text
           /\ IF text # <<>>
              THEN /\ moderationCalls' = moderationCalls + 1
                   /\ pc' = "moderating"
                   /\ UNCHANGED <<vendorMode, events, retrieverCalls, llmCalls>>
              ELSE /\ Dispatch(text)
                   /\ UNCHANGED moderationCalls
    /\ UNCHANGED <<messages, moderationResult, retrieverImpl, result, stepCount, toolOutstanding>>

\* isContentFlagged resolves
ModerationReturns ==
    /\ pc = "moderating"
    /\ UNCHANGED <<sessionVars, wallVars>>
    /\ \E mod \in ModerationResults :
        /\ moderationResult' = mod
        /\ IF mod.flagged
           THEN /\ events' = DenialEvents(mod)
                /\ pc' = "done"
                /\ UNCHANGED <<vendorMode, retrieverCalls, llmCalls>>
           ELSE Dispatch(latestUserText)
    /\ UNCHANGED <<messages, latestUserText, retrieverImpl, result, moderationCalls,
                   stepCount, toolOutstanding>>

\* the moderation call wrapped in a try whose catch goes on as not flagged
ModerationThrowsDegrades ==
    /\ pc = "moderating"
    /\ UNCHANGED <<sessionVars, wallVars>>
    /\ Dispatch(latestUserText)
    /\ UNCHANGED <<messages, latestUserText, moderationResult, retrieverImpl, result,
                   moderationCalls, stepCount, toolOutstanding>>

\* isContentFlagged rejects: nothing in POST catches it
ModerationThrows ==
    /\ pc = "moderating"
    /\ UNCHANGED <<sessionVars, wallVars>>
    /\ pc' = "failed"
    /\ UNCHANGED <<messages, latestUserText, moderationResult, vendorMode, events,
                   retrieverImpl, result, moderationCalls, retrieverCalls, llmCalls,
                   stepCount, toolOutstanding>>

\* vectorDatabaseSearch.execute({ query: latestUserText, topK: 5 }) settles
RetrieverSettles ==
    /\ pc = "retrieving"
    /\ UNCHANGED <<sessionVars, wallVars>>
    /\ \E env \in BackendOutcomes :
        result' = vectorDatabaseSearchExecute(retrieverImpl, latestUserText, TopK, env)
    /\ pc' = "retrieved"
    /\ UNCHANGED <<messages, latestUserText, moderationResult, vendorMode, events,
                   retrieverImpl, moderationCalls, retrieverCalls, llmCalls,
                   stepCount, toolOutstanding>>

\* the vendor branch resumes after the await
VendorRespond ==
    /\ pc = "retrieved"
    /\ UNCHANGED <<sessionVars, wallVars>>
    /\ events' = events \o VendorCloseEvents(result)
    /\ pc' = "done"
    /\ UNCHANGED <<messages, latestUserText, moderationResult, vendorMode,
                   retrieverImpl, result, moderationCalls, retrieverCalls, llmCalls,
                   stepCount, toolOutstanding>>

\* the backend step with parallelToolCalls left on: a step may ask for two
\* tool calls at once
BackendStepParallel ==
    /\ pc = "general"
    /\ UNCHANGED <<sessionVars, wallVars>>
    /\ toolOutstanding = 0
    /\ stepCount < StepLimit
    /\ stepCount' = stepCount + 1
    /\ \E wanted \in 0..2 :
        IF wanted > 0
        THEN /\ toolOutstanding' = toolOutstanding + wanted
             /\ pc' = "general"
        ELSE /\ toolOutstanding' = toolOutstanding
             /\ pc' = "done"
    /\ UNCHANGED <<messages, latestUserText, moderationResult, vendorMode, events,
                   retrieverImpl, result, moderationCalls, retrieverCalls, llmCalls>>

\* general path: the backend runs one step, which either asks for a tool call
\* (parallelToolCalls: false, so one) or ends the turn
BackendStep ==
    /\ pc = "general"
    /\ UNCHANGED <<sessionVars, wallVars>>
    /\ toolOutstanding = 0
    /\ stepCount < StepLimit
    /\ stepCount' = stepCount + 1
    /\ \E wantsTool \in BOOLEAN :
        IF wantsTool
        THEN /\ toolOutstanding' = toolOutstanding + 1
             /\ pc' = "general"
        ELSE /\ toolOutstanding' = toolOutstanding
             /\ pc' = "done"
    /\ UNCHANGED <<messages, latestUserText, moderationResult, vendorMode, events,
                   retrieverImpl, result, moderationCalls, retrieverCalls, llmCalls>>

\* general path: the outstanding tool call's result arrives and closes the
\* step; stopWhen: stepCountIs(10) ends the turn after the tenth step
ToolResult ==
    /\ pc = "general"
    /\ UNCHANGED <<sessionVars, wallVars>>
    /\ toolOutstanding > 0
    /\ toolOutstanding' = toolOutstanding - 1
    /\ pc' = IF stepCount >= StepLimit THEN "done" ELSE "general"
    /\ UNCHANGED <<messages, latestUserText, moderationResult, vendorMode, events,
                   retrieverImpl, result, moderationCalls, retrieverCalls, llmCalls,
                   stepCount>>

(***************************************************************************)
(* The session store adapter: getSession, createSession, updateSession in  *)
(* the .single() variant (src/lib/supabase.ts) and the .maybeSingle()      *)
(* variant (src/unnamed/part_001), against the convo_sessions table.       *)
(* A call is two steps: the caller builds and sends the request (for an    *)
(* update, new Date() is read here), then the store answers it.            *)
(***************************************************************************)
MaxClock == 1      \* the wall clock runs from 0 to MaxClock

Callers == {"c1", "c2"}
SessionKeys == {"", "s1"}               \* "" is the falsy key
StoredKeys == SessionKeys \ {""}
\* JSON state blobs, as sets of <<field, value>> pairs
StateBlobs == { {}, {<<"step", "venue">>}, {<<"city", "mumbai">>} }

NoRow == [present |-> FALSE, state |-> {}, last_updated |-> 0]
Row(state, stamp) == [present |-> TRUE, state |-> state, last_updated |-> stamp]

\* the two updates the store applied last to a key: whose they were and the
\* newState each carried
NoWrite == [by |-> "none", state |-> {}]
NoWrites == [last |-> NoWrite, prev |-> NoWrite]

IdleCall ==
    [op |-> "idle", key |-> "", state |-> {}, stamp |-> 0, status |-> "idle",
     outcome |-> "none", ret |-> NoRow]

SessionInit ==
    /\ sessionImpl \in {"single", "maybeSingle"}
    /\ table \in [StoredKeys -> {NoRow} \cup {Row(st, 0) : st \in StateBlobs}]
    /\ calls = [c \in Callers |-> IdleCall]
    /\ clock = 0
    /\ writeLog = [k \in StoredKeys |-> NoWrites]

\* the caller's side of a call, up to the await: a falsy key ends the call
\* here (getSession returns null, the other two throw); updateSession reads
\* new Date() while it builds the request
Begin(op, key, state, now) ==
    [op |-> op, key |-> key, state |-> state,
     stamp |-> IF op = "update" /\ key # "" THEN now ELSE 0,
     outcome |-> "none", ret |-> NoRow,
     status |-> IF key # "" THEN "pending"
                ELSE IF op = "get" THEN "returned"
                ELSE "threw"]

CallGetSession ==
    \E c \in Callers, key \in SessionKeys :
        /\ calls[c].status = "idle"
        /\ calls' = [calls EXCEPT ![c] = Begin("get", key, {}, clock)]
        /\ UNCHANGED <<sessionImpl, table, clock, writeLog>>
        /\ UNCHANGED <<routerVars, wallVars>>

CallCreateSession ==
    \E c \in Callers, key \in SessionKeys, st \in StateBlobs :
        /\ calls[c].status = "idle"
        /\ calls' = [calls EXCEPT ![c] = Begin("create", key, st, clock)]
        /\ UNCHANGED <<sessionImpl, table, clock, writeLog>>
        /\ UNCHANGED <<routerVars, wallVars>>

CallUpdateSession ==
    \E c \in Callers, key \in SessionKeys, st \in StateBlobs :
        /\ calls[c].status = "idle"
        /\ calls' = [calls EXCEPT ![c] = Begin("update", key, st, clock)]
        /\ UNCHANGED <<sessionImpl, table, clock, writeLog>>
        /\ UNCHANGED <<routerVars, wallVars>>

\* the caller has taken its answer and is free to call again
Finish ==
    \E c \in Callers :
        /\ calls[c].status \in {"returned", "threw"}
        /\ calls' = [calls EXCEPT ![c] = IdleCall]
        /\ UNCHANGED <<sessionImpl, table, clock, writeLog>>
        /\ UNCHANGED <<routerVars, wallVars>>

\* .single() reports an error when the answer has no row; .maybeSingle()
\* answers data = null without one
NoRowIsError(impl) == impl = "single"

Settle(call, status, outcome, ret) ==
    [call EXCEPT !.status = status, !.outcome = outcome, !.ret = ret]

\* an update that merges newState into the stored state
StoreUpdateMerge(row, call) == Row(row.state \cup call.state, call.stamp)

\* the row an applied update leaves: { state: newState, last_updated: <stamp> }
StoreUpdate(row, call) == Row(call.state, call.stamp)

\* the row an insert leaves: the state given, last_updated by column default
StoreInsert(call, now) == Row(call.state, now)

\* getSession with a catch block that throws the error on
GetResultRethrow(call, outcome, row) ==
    IF outcome = "ok" /\ row.present THEN Settle(call, "returned", outcome, row)
    ELSE IF outcome = "throws" THEN Settle(call, "threw", outcome, NoRow)
    ELSE Settle(call, "returned", outcome, NoRow)

\* getSession after the await: data on success, null on error and in catch
GetResult(call, outcome, row) ==
    IF outcome = "ok" /\ row.present
    THEN Settle(call, "returned", outcome, row)
    ELSE Settle(call, "returned", outcome, NoRow)

\* createSession after the await: data, or the error thrown on
CreateResult(call, outcome, inserted, row) ==
    IF inserted
    THEN Settle(call, "returned", outcome, row)
    ELSE Settle(call, "threw", outcome, NoRow)

\* updateSession after the await: data (null when .maybeSingle() found no
\* row), or the error thrown on
UpdateResult(impl, call, outcome, updated, row) ==
    IF updated THEN Settle(call, "returned", outcome, row)
    ELSE IF outcome = "ok" /\ ~NoRowIsError(impl) THEN Settle(call, "returned", outcome, NoRow)
    ELSE Settle(call, "threw", outcome, NoRow)

\* the store answers getSession's select
AnswerGet(c, outcome) ==
    LET call == calls[c]
    IN  /\ call.op = "get"
        /\ calls' = [calls EXCEPT ![c] = GetResult(call, outcome, table[call.key])]
        /\ UNCHANGED <<table, writeLog>>

\* the store answers createSession's insert: session_key is unique, so the
\* insert of a taken key is an error
AnswerCreate(c, outcome) ==
    LET call == calls[c]
        inserted == outcome = "ok" /\ ~table[call.key].present
        row == StoreInsert(call, clock)
    IN  /\ call.op = "create"
        /\ table' = IF inserted THEN [table EXCEPT ![call.key] = row] ELSE table
        /\ calls' = [calls EXCEPT ![c] = CreateResult(call, outcome, inserted, row)]
        /\ UNCHANGED writeLog

\* the store answers updateSession's update
AnswerUpdate(c, outcome) ==
    LET call == calls[c]
        updated == outcome = "ok" /\ table[call.key].present
        row == StoreUpdate(table[call.key], call)
    IN  /\ call.op = "update"
        /\ table' = IF updated THEN [table EXCEPT ![call.key] = row] ELSE table
        /\ writeLog' = IF updated
                       THEN [writeLog EXCEPT ![call.key] =
                               [last |-> [by |-> c, state |-> call.state], prev |-> @.last]]
                       ELSE writeLog
        /\ calls' = [calls EXCEPT ![c] = UpdateResult(sessionImpl, call, outcome, updated, row)]

StoreOutcomes == {"ok", "error", "throws"}

StoreAnswersGet ==
    \E c \in Callers, outcome \in StoreOutcomes :
        /\ calls[c].status = "pending"
        /\ AnswerGet(c, outcome)
        /\ UNCHANGED <<sessionImpl, clock>>
        /\ UNCHANGED <<routerVars, wallVars>>

StoreAnswersCreate ==
    \E c \in Callers, outcome \in StoreOutcomes :
        /\ calls[c].status = "pending"
        /\ AnswerCreate(c, outcome)
        /\ UNCHANGED <<sessionImpl, clock>>
        /\ UNCHANGED <<routerVars, wallVars>>

StoreAnswersUpdate ==
    \E c \in Callers, outcome \in StoreOutcomes :
        /\ calls[c].status = "pending"
        /\ AnswerUpdate(c, outcome)
        /\ UNCHANGED <<sessionImpl, clock>>
        /\ UNCHANGED <<routerVars, wallVars>>

Tick ==
    /\ clock < MaxClock
    /\ clock' = clock + 1
    /\ UNCHANGED <<sessionImpl, table, calls, writeLog>>
    /\ UNCHANGED <<routerVars, wallVars>>

(***************************************************************************)
(* The Message Wall: the render list `rendered` of MessageWall.            *)
(***************************************************************************)
MaxWallMessages == 2    \* most messages on the wall
MaxParts == 1           \* most parts of one message

WallRoles == {"user", "assistant", "tool", "system", "data", U}   \* U: no role field
PartTypes == {"text", "reasoning", "tool-result"}

NotAnArray == [isArray |-> FALSE, list |-> <<>>]
WallList(list) == [isArray |-> TRUE, list |-> list]

\* the indices (0-based, as in the key `${m.id}-r-${i}`) of the parts that
\* render a ReasoningPart block
ReasoningBlocks(parts) == {i \in 0..(Len(parts) - 1) : parts[i + 1] = "reasoning"}

\* the render list with a reasoning branch for system messages
RenderMessageSystemAsReasoning(m, idx) ==
    LET role == Coalesce(m.role, "assistant")
    IN  IF role = "user"
        THEN [key |-> idx, component |-> "UserMessage", reasoning |-> {}]
        ELSE IF role = "system"
        THEN [key |-> idx, component |-> "ReasoningPart", reasoning |-> {}]
        ELSE [key |-> idx, component |-> "AssistantMessage",
              reasoning |-> ReasoningBlocks(m.parts)]

\* one element of the render list
RenderMessage(m, idx) ==
    LET role == Coalesce(m.role, "assistant")
    IN  IF role = "user"
        THEN [key |-> idx, component |-> "UserMessage", reasoning |-> {}]
        ELSE [key |-> idx, component |-> "AssistantMessage",
              reasoning |-> ReasoningBlocks(m.parts)]

\* the useMemo body: null when messages is not an array
RenderList(msgs) ==
    IF ~msgs.isArray THEN [isNull |-> TRUE, items |-> <<>>]
    ELSE [isNull |-> FALSE,
          items |-> [i \in 1..Len(msgs.list) |-> RenderMessage(msgs.list[i], i)]]

WallInit ==
    /\ wallMessages = NotAnArray
    /\ rendered = RenderList(wallMessages)

\* useChat hands over its first message array
LoadMessages ==
    /\ ~wallMessages.isArray
    /\ UNCHANGED <<routerVars, sessionVars>>
    /\ wallMessages' = WallList(<<>>)
    /\ rendered' = RenderList(wallMessages')

\* a message is appended and the wall renders again
AppendMessage ==
    /\ wallMessages.isArray
    /\ UNCHANGED <<routerVars, sessionVars>>
    /\ Len(wallMessages.list) < MaxWallMessages
    /\ \E role \in WallRoles, type \in PartTypes \cup {U} :
        wallMessages' = WallList(Append(wallMessages.list,
            [role |-> role, parts |-> IF type = U THEN <<>> ELSE <<type>>]))
    /\ rendered' = RenderList(wallMessages')

\* the last message receives a streamed part and the wall renders again
StreamPart ==
    /\ wallMessages.isArray
    /\ UNCHANGED <<routerVars, sessionVars>>
    /\ wallMessages.list # <<>>
    /\ LET n == Len(wallMessages.list)
       IN  /\ Len(wallMessages.list[n].parts) < MaxParts
           /\ \E type \in PartTypes :
                wallMessages' = WallList([wallMessages.list EXCEPT ![n].parts = Append(@, type)])
    /\ rendered' = RenderList(wallMessages')

(***************************************************************************)
(* Specifications: the three subsystems share no state, so each is run     *)
(* with the other two at rest.                                             *)
(***************************************************************************)
RouterAtRest ==
    /\ messages = <<>>
    /\ pc = "rest"
    /\ latestUserText = <<>>
    /\ moderationResult = NoModeration
    /\ vendorMode = FALSE
    /\ events = <<>>
    /\ retrieverImpl = "tool"
    /\ result = NoResult
    /\ moderationCalls = 0
    /\ retrieverCalls = 0
    /\ llmCalls = 0
    /\ stepCount = 0
    /\ toolOutstanding = 0

SessionAtRest ==
    /\ sessionImpl = "single"
    /\ table = [k \in StoredKeys |-> NoRow]
    /\ calls = [c \in Callers |-> IdleCall]
    /\ clock = 0
    /\ writeLog = [k \in StoredKeys |-> NoWrites]

WallAtRest ==
    /\ wallMessages = NotAnArray
    /\ rendered = RenderList(NotAnArray)

Init == RouterInit /\ SessionAtRest /\ WallAtRest
Next ==
    \/ Receive
    \/ ModerationReturns
    \/ ModerationThrows
    \/ RetrieverSettles
    \/ VendorRespond
    \/ BackendStep
    \/ ToolResult
Spec == Init /\ [][Next]_vars

InitSession == SessionInit /\ RouterAtRest /\ WallAtRest
NextSession ==
    \/ CallGetSession
    \/ CallCreateSession
    \/ CallUpdateSession
    \/ StoreAnswersGet
    \/ StoreAnswersCreate
    \/ StoreAnswersUpdate
    \/ Finish
    \/ Tick
SpecSession == InitSession /\ [][NextSession]_vars

InitWall == WallInit /\ RouterAtRest /\ SessionAtRest
NextWall ==
    \/ LoadMessages
    \/ AppendMessage
    \/ StreamPart
SpecWall == InitWall /\ [][NextWall]_vars

(***************************************************************************)
(* Properties of the chat router.                                          *)
(***************************************************************************)
Positions(evs, type) == {i \in 1..Len(evs) : evs[i].type = type}
TextIds(evs) == {evs[i].id : i \in {j \in 1..Len(evs) : evs[j].id # U}}
OfId(evs, type, id) == {i \in Positions(evs, type) : evs[i].id = id}

\* no text id is opened again before it was closed
NoReopen(evs) ==
    \A i, j \in Positions(evs, "text-start") :
        (i < j /\ evs[i].id = evs[j].id)
            => \E e \in OfId(evs, "text-end", evs[i].id) : i < e /\ e < j

\* a complete stream: start first, finish last, and the one text id opened
\* once, closed once, with its deltas in between
CompleteStream(evs) ==
    /\ Len(evs) >= 2
    /\ Positions(evs, "start") = {1}
    /\ Positions(evs, "finish") = {Len(evs)}
    /\ Cardinality(TextIds(evs)) = 1
    /\ \A id \in TextIds(evs) :
        /\ Cardinality(OfId(evs, "text-start", id)) = 1
        /\ Cardinality(OfId(evs, "text-end", id)) = 1
        /\ \A d \in OfId(evs, "text-delta", id) :
            /\ \A b \in OfId(evs, "text-start", id) : b < d
            /\ \A e \in OfId(evs, "text-end", id) : d < e
        /\ \A b \in OfId(evs, "text-start", id), e \in OfId(evs, "text-end", id) : b < e

DenialTurn == moderationResult.called /\ moderationResult.flagged
VendorTurn == vendorMode
TurnOver == pc = "done"

\* C1: on the moderation-denial path and on the vendor path, whatever the
\* outcome, the finished stream begins with start, ends with finish and has
\* text-start before every text-delta and exactly one text-end for its single
\* text id; at no moment is a text id opened twice without a text-end between.
C1_StreamOrdering ==
    /\ NoReopen(events)
    /\ (TurnOver /\ (DenialTurn \/ VendorTurn)) => CompleteStream(events)

\* C1's case: a vendor turn that ended after the retriever threw
C1_Witness == TurnOver /\ VendorTurn /\ result.threw /\ Len(events) = 5

\* the text of the stream: the deltas written, in order
Deltas(evs) ==
    LET ds == SelectSeq(evs, LAMBDA e : e.type = "text-delta")
    IN  [i \in 1..Len(ds) |-> ds[i].delta]

\* the message a flagged result asks for
DenialText(mod) ==
    IF mod.denialMessage = U \/ mod.denialMessage = "" THEN DenialFallback
    ELSE mod.denialMessage

\* C2: when the gate flags a non-empty latest user utterance, the turn is one
\* text channel whose only delta is the denial message (the fixed fallback
\* when the gate gives none), and neither the retriever nor the model backend
\* is called, whatever keywords the utterance holds.
C2_FlaggedShortCircuits ==
    DenialTurn =>
        /\ TurnOver
        /\ CompleteStream(events)
        /\ Deltas(events) = << <<DenialText(moderationResult)>> >>
        /\ retrieverCalls = 0
        /\ llmCalls = 0
        /\ stepCount = 0

\* C2's case: a flagged utterance that holds a vendor keyword, with no
\* denial message from the gate
C2_Witness ==
    /\ DenialTurn
    /\ latestUserText = <<"D","J">>
    /\ moderationResult.denialMessage = ""

\* the utterance, read off the history: the text parts of the last message
\* whose role is user, in part order
LastUserIndex(msgs) ==
    IF \E i \in 1..Len(msgs) : msgs[i].role = "user"
    THEN CHOOSE i \in 1..Len(msgs) :
            /\ msgs[i].role = "user"
            /\ \A j \in (i + 1)..Len(msgs) : msgs[j].role # "user"
    ELSE 0

RECURSIVE TextOfParts(_)
TextOfParts(parts) ==
    IF parts = <<>> THEN <<>>
    ELSE (IF Head(parts).type = "text" THEN Head(parts).text ELSE <<>>) \o TextOfParts(Tail(parts))

Utterance(msgs) ==
    IF LastUserIndex(msgs) = 0 THEN <<>> ELSE TextOfParts(msgs[LastUserIndex(msgs)].parts)

\* k occurs in t somewhere
Occurs(t, k) == \E i \in 1..Len(t) : i + Len(k) - 1 <= Len(t) /\ SubSeq(t, i, i + Len(k) - 1) = k

HasKeyword(u) == \E k \in vendorKeywords \cup cityKeywords : Occurs(ToLowerCase(u), k)

Dispatched == pc \in {"retrieving", "retrieved", "general", "done"} /\ ~DenialTurn
OnVendorPath == retrieverCalls = 1 /\ llmCalls = 0
OnGeneralPath == retrieverCalls = 0 /\ llmCalls = 1 /\ events = <<>>

\* C3: an unflagged turn takes the vendor path exactly when the lower-cased
\* latest user utterance contains a vendor or locality keyword as a substring;
\* every other unflagged turn, the empty utterance and the history without a
\* user message included, takes the general path; one path runs per turn.
C3_VendorIffKeyword ==
    Dispatched =>
        /\ OnVendorPath <=> HasKeyword(Utterance(messages))
        /\ OnGeneralPath <=> ~HasKeyword(Utterance(messages))
        /\ OnVendorPath # OnGeneralPath

\* C3's case: a keyword in mixed case inside a longer word, split over two
\* text parts of the latest user message
C3_Witness ==
    /\ Dispatched
    /\ OnVendorPath
    /\ messages = <<UserMsg2(<<"D">>, <<"j">>)>>

\* C4: on the vendor path, whenever the embedding call or the index query
\* fails, the retriever fails with an error and the router emits exactly the
\* fixed failure message, not the no-vendors message, and the stream still
\* closes its text channel and ends with finish.
C4_RetrievalFailureMessage ==
    (TurnOver /\ VendorTurn /\ (result.env.embed = "throws" \/ result.env.query = "throws")) =>
        /\ result.threw
        /\ Deltas(events) = << <<FailureMessage>> >>
        /\ CompleteStream(events)

\* the lines of a delta: the pieces between its "\n" pieces
RECURSIVE SplitLines(_, _)
SplitLines(pieces, line) ==
    IF pieces = <<>> THEN <<line>>
    ELSE IF Head(pieces) = "\n" THEN <<line>> \o SplitLines(Tail(pieces), <<>>)
    ELSE SplitLines(Tail(pieces), Append(line, Head(pieces)))

OrDefault(x, d) == IF x = U \/ x = "" THEN d ELSE x

\* line k of the vendor list is about vendor v: its number, then the name,
\* category and location (or their stand-ins), then the price suffix exactly
\* when the price range is truthy
LineShows(line, k, v) ==
    /\ Len(line) = (IF v.price_range # U /\ v.price_range # "" THEN 9 ELSE 7)
    /\ line[1] = Digits[k]
    /\ line[2] = ". "
    /\ line[3] = OrDefault(v.name, "Unnamed vendor")
    /\ line[4] = " - "
    /\ line[5] = OrDefault(v.category, "Vendor")
    /\ line[6] = ", "
    /\ line[7] = OrDefault(v.location, "Mumbai")
    /\ Len(line) = 9 => (line[8] = ", approx " /\ line[9] = v.price_range)

\* C5: on the vendor path with n > 0 vendors from the retriever, the text is
\* the header followed by exactly min(5, n) lines, line k numbered k and built
\* from the k-th vendor in the retriever's order, with the ", approx ..."
\* suffix exactly on the lines whose vendor has a truthy price_range.
C5_VendorLines ==
    (TurnOver /\ VendorTurn /\ ~result.threw /\ Len(result.vendors) > 0) =>
        /\ Len(Deltas(events)) = 1
        /\ LET text == Deltas(events)[1]
               lines == SplitLines(Tail(text), <<>>)
               n == Len(result.vendors)
           IN  /\ Head(text) = Header
               /\ Len(lines) = (IF n < 5 THEN n ELSE 5)
               /\ \A k \in 1..Len(lines) : LineShows(lines[k], k, result.vendors[k])

\* C5's case: more vendors than the cap, the first with a price range and the
\* second without
C5_Witness ==
    /\ TurnOver /\ VendorTurn /\ ~result.threw
    /\ Len(result.vendors) = 6
    /\ Truthy(result.vendors[1].price_range)
    /\ ~Truthy(result.vendors[2].price_range)
    /\ result.vendors[6].name = "Sea View Banquets"

(***************************************************************************)
(* Properties of the session store adapter.                                *)
(***************************************************************************)
UpdateApplied(c, k) ==
    /\ calls[c].op = "update" /\ calls[c].key = k
    /\ calls[c].status = "returned" /\ calls[c].ret.present

\* the same caller's update was applied twice running with one newState
AppliedTwice(k) ==
    /\ writeLog[k].last.by # "none"
    /\ writeLog[k].prev.by = writeLog[k].last.by
    /\ writeLog[k].prev.state = writeLog[k].last.state

IdempotentUpdate ==
    \A k \in StoredKeys : AppliedTwice(k) => table[k].state = writeLog[k].last.state

\* from one applied update of a key to the next, last_updated does not go back
LastUpdatedMonotone ==
    \A k \in StoredKeys :
        (writeLog[k].last.by # "none" /\ table[k].present /\ table'[k].present)
            => table'[k].last_updated >= table[k].last_updated

\* C6: updateSession(key, newState) applied twice in sequence to an existing
\* session leaves the stored state equal to newState exactly, and over any
\* sequence of updates to a key, overlapping ones included, the stored
\* last_updated never decreases.
C6_IdempotentAndMonotone == []IdempotentUpdate /\ [][LastUpdatedMonotone]_vars

\* the record getSession hands back, given the row the store holds
Answered(c) == calls[c].status = "pending" /\ calls'[c].status # "pending"
Begun(c) == calls[c].status = "idle" /\ calls'[c].status # "idle"

GetSessionStep(c) ==
    /\ (Begun(c) /\ calls'[c].op = "get" /\ calls'[c].status # "pending") =>
            /\ calls'[c].key = ""
            /\ calls'[c].status = "returned"
            /\ calls'[c].ret = NoRow
            /\ table' = table
    /\ (Answered(c) /\ calls[c].op = "get") =>
            /\ calls'[c].status = "returned"
            /\ calls'[c].ret = (IF calls'[c].outcome = "ok" /\ table[calls[c].key].present
                                THEN table[calls[c].key]
                                ELSE NoRow)
            /\ table' = table

\* C7: getSession never throws: for every key and every store behaviour (row
\* found, no row, error reported, call throws) it returns the stored record
\* when a row was found and null otherwise, and it never changes the table.
C7_GetSessionNeverThrows == [][\A c \in Callers : GetSessionStep(c)]_vars

\* C7's case: getSession came back null from a store call that threw, and
\* another came back with the stored row
C7_Witness ==
    /\ calls["c1"].op = "get" /\ calls["c1"].status = "returned"
    /\ calls["c1"].outcome = "throws" /\ ~calls["c1"].ret.present
    /\ calls["c2"].op = "get" /\ calls["c2"].status = "returned"
    /\ calls["c2"].ret.present /\ calls["c2"].ret = table["s1"]

WriteCallStep(c) ==
    (calls'[c].op \in {"create", "update"} /\ (Begun(c) \/ Answered(c)) /\ calls'[c].status # "pending") =>
        /\ calls'[c].status \in {"returned", "threw"}
        /\ (calls'[c].key = "" \/ calls'[c].outcome \in {"error", "throws"})
                => calls'[c].status = "threw"
        /\ calls'[c].status = "threw" => table' = table
        /\ calls'[c].status = "returned" =>
                /\ calls'[c].ret.present
                /\ calls'[c].ret.state = calls'[c].state
                /\ calls'[c].ret = table'[calls'[c].key]

\* C8: createSession and updateSession each either fail with an error or
\* return the stored record for the key holding the given state: they fail
\* when the key is empty or the store operation fails, a failed call leaves
\* the table unchanged, and a call that does not fail never returns null,
\* updateSession on a key without a row included.
C8_WriteCallsFailOrReturnRecord == [][\A c \in Callers : WriteCallStep(c)]_vars

\* an update the store accepts for a row that exists is applied as it is:
\* it is not rejected, and the stored state becomes its newState
UpdateStep(c) ==
    (Answered(c) /\ calls[c].op = "update" /\ calls'[c].outcome = "ok"
        /\ table[calls[c].key].present) =>
            /\ calls'[c].status = "returned"
            /\ table'[calls[c].key].state = calls[c].state

LastWriteStands ==
    \A k \in StoredKeys :
        writeLog[k].last.by # "none" =>
            /\ table[k].present
            /\ table[k].state = writeLog[k].last.state

\* C9: of concurrent updateSession calls on one key none is rejected for a
\* conflict, and the stored state is the newState of the update whose write
\* reached the store last, never a mixture of the states of different calls.
C9_LastWriteWins == []LastWriteStands /\ [][\A c \in Callers : UpdateStep(c)]_vars

\* C9's case: two updates of one key with different states, both applied,
\* where the one that was begun first reached the store last
C9_Witness ==
    /\ UpdateApplied("c1", "s1") /\ UpdateApplied("c2", "s1")
    /\ calls["c1"].state # calls["c2"].state
    /\ calls["c1"].stamp < calls["c2"].stamp
    /\ writeLog["s1"].last.by = "c1" /\ writeLog["s1"].prev.by = "c2"
    /\ table["s1"].state # {}

(***************************************************************************)
(* Properties of the Message Wall.                                         *)
(***************************************************************************)
\* the visual roles an element of the render list shows a message under
VisualRoles(item) ==
    IF item.component = "UserMessage" THEN {"user"}
    ELSE IF item.component = "ReasoningPart" THEN {"reasoning"}
    ELSE {"assistant"} \cup (IF item.reasoning # {} THEN {"reasoning"} ELSE {})

NoneDropped ==
    wallMessages.isArray =>
        /\ ~rendered.isNull
        /\ Len(rendered.items) = Len(wallMessages.list)
        /\ \A i \in 1..Len(rendered.items) : rendered.items[i].key = i

\* the role a message is to be shown under, by its role field
RoleFor(m) ==
    IF m.role = "user" THEN "user"
    ELSE IF m.role = "system" THEN "reasoning"
    ELSE "assistant"

\* C10: every message is shown under exactly one visual role by its role
\* field: user as user, assistant and tool as assistant, system as reasoning,
\* anything else as fallback assistant; none under two roles, none dropped.
C10_OneVisualRole ==
    /\ NoneDropped
    /\ \A i \in 1..Len(rendered.items) :
         VisualRoles(rendered.items[i]) = {RoleFor(wallMessages.list[i])}

\* C10 as the code has it: a message whose role is user is shown as a user
\* message and nothing else; every other message (assistant, tool, system,
\* any other role, no role) is shown as an assistant message, followed by one
\* reasoning block per part of type reasoning; none is dropped or re-ordered.
C10_UserOrAssistant ==
    /\ NoneDropped
    /\ \A i \in 1..Len(rendered.items) :
         LET m == wallMessages.list[i]
             item == rendered.items[i]
         IN  /\ m.role = "user" => (item.component = "UserMessage" /\ item.reasoning = {})
             /\ m.role # "user" =>
                   /\ item.component = "AssistantMessage"
                   /\ item.reasoning = {p \in 0..(Len(m.parts) - 1) : m.parts[p + 1] = "reasoning"}

\* C10's case: a system message and a message with a reasoning part on the wall
C10_Witness ==
    /\ wallMessages.isArray
    /\ Len(wallMessages.list) = 2
    /\ wallMessages.list[1].role = "system"
    /\ rendered.items[1].component = "AssistantMessage"
    /\ wallMessages.list[2].role = "assistant"
    /\ rendered.items[2].reasoning = {0}

(***************************************************************************)
(* Properties of the chat router: what is awaited before what.             *)
(***************************************************************************)
ModerationDone == moderationResult.called
RetrievalDone == pc \in {"retrieved", "done"}
TypesOf(evs) == [i \in 1..Len(evs) |-> evs[i].type]

\* C11: no stream event of any kind, start and text-start included, is emitted
\* before the moderation check has completed and, on the vendor path, before
\* the retrieval call has completed.
C11_NoEventBeforeGates ==
    events # <<>> =>
        /\ ModerationDone
        /\ VendorTurn => RetrievalDone

\* C11 as the code has it: no stream event is emitted before the moderation
\* check has completed; on the vendor path start and text-start are written
\* before the retrieval call is awaited, and the text-delta, text-end and
\* finish only after it has settled.
C11_OnlyOpeningBeforeRetrieval ==
    /\ events # <<>> => ModerationDone
    /\ pc \in {"request", "moderating", "failed"} => events = <<>>
    /\ (VendorTurn /\ ~RetrievalDone) => TypesOf(events) = <<"start", "text-start">>
    /\ (VendorTurn /\ pc = "retrieved") => TypesOf(events) = <<"start", "text-start">>

\* C11's case: a vendor turn whose retrieval call is still pending
C11_Witness ==
    /\ VendorTurn
    /\ pc = "retrieving"
    /\ ModerationDone
    /\ retrieverCalls = 1
    /\ Len(events) = 2

(***************************************************************************)
(* Properties of the general path.                                         *)
(***************************************************************************)
GeneralTurn == llmCalls = 1

\* what the general path has left to do: it is never negative and every
\* step and every tool result lowers it, so steps cannot go on for ever
Remaining == 2 * (10 - stepCount) + toolOutstanding

StepsBounded ==
    /\ toolOutstanding \in {0, 1}
    /\ stepCount \in 0..10
    /\ Remaining >= 0
    /\ stepCount > 0 => GeneralTurn
    /\ (pc = "general" /\ toolOutstanding = 0) => stepCount < 10
    /\ (TurnOver /\ GeneralTurn) => toolOutstanding = 0

StepsSerialized ==
    /\ toolOutstanding' > toolOutstanding => toolOutstanding = 0
    /\ stepCount' # stepCount => (stepCount' = stepCount + 1 /\ toolOutstanding = 0)
    /\ (stepCount' # stepCount \/ toolOutstanding' # toolOutstanding) => Remaining' < Remaining

\* C12: on the general path tool calls are issued one at a time, each result
\* observed before the next call or step, never two outstanding at once; a
\* turn runs at most 10 steps, so it cannot go on issuing steps and ends.
C12_SerializedBoundedSteps == []StepsBounded /\ [][StepsSerialized]_vars

\* C12's case: a general turn that ran nine tool-calling steps and ended with
\* its tenth step, the last one allowed
C12_Witness ==
    /\ TurnOver
    /\ GeneralTurn
    /\ stepCount = 10
    /\ toolOutstanding = 0

(***************************************************************************)
(* Properties of a failing moderation call.                                *)
(***************************************************************************)
ModerationUnanswered == moderationCalls = 1 /\ ~moderationResult.called

\* C13: when the moderation call throws for a non-empty utterance the turn
\* fails as a whole: no stream event is emitted, neither the retriever nor the
\* model backend is called, and the turn goes on neither as not flagged nor
\* through the vendor path's catch.
C13_ModerationFailureFailsTurn ==
    ModerationUnanswered =>
        /\ latestUserText # <<>>
        /\ pc \in {"moderating", "failed"}
        /\ events = <<>>
        /\ retrieverCalls = 0
        /\ llmCalls = 0
        /\ ~vendorMode

\* C13's case: the moderation call threw on an utterance that holds a vendor
\* keyword
C13_Witness ==
    /\ pc = "failed"
    /\ ModerationUnanswered
    /\ latestUserText = <<"M","u","m","b","a","i">>

====
